---- MODULE Spec2Model ----
(***************************************************************************)
(* Model of the Prometheus push-gateway publisher (prometheus.go): the     *)
(* connection pool clientPool guarded by the mutex m, the background       *)
(* goroutine watchConnections, and Publish with its retry loop around      *)
(* selectClient and sendMetrics; mangleMetric and prometheusString, which  *)
(* sendMetrics writes the request body with.                               *)
(*                                                                         *)
(* Spec is the pool under concurrent calls, FairSpec the same with the     *)
(* scheduling liveness needs, BatchSpec one call with every batch of       *)
(* metrics.                                                                *)
(*                                                                         *)
(* Every Publish call runs in a goroutine of its own.  A goroutine's        *)
(* position is a pc value named after the statement it is about to execute.*)
(*                                                                         *)
(* Time is counted in minutes and every stored instant is kept relative to *)
(* the current instant: Now is 0, an instant t minutes ago is -t.  Tick     *)
(* moves all stored instants one minute into the past; an instant is not   *)
(* moved beyond the point after which no comparison of the program can     *)
(* tell it from an older one.                                              *)
(***************************************************************************)
EXTENDS Integers, Sequences, FiniteSets, TLC

\* ------------------------------------------------------------------ bounds
MaxCalls == 2
MaxRetries == 2

\* ------------------------------------------------------- program constants
\* maxConnectionIdle = time.Minute * 5
maxConnectionIdle == 5
\* watchConnectionWait = time.Minute * 1
watchConnectionWait == 1

\* ------------------------------------------------------------- identities
\* the goroutines running Publish, numbered in the order the calls begin
Publishers == 1..MaxCalls
\* owner of the mutex m: nobody, a Publish goroutine, or watchConnections
Unlocked == 0
WatcherId == MaxCalls + 1

\* plugin.SnapGOBContentType, plugin.SnapJSONContentType and one other type
SnapGOBContentType == "snap.gob"
SnapJSONContentType == "snap.json"
ContentTypes == {SnapGOBContentType, SnapJSONContentType, "text/plain"}

\* ------------------------------------------------------------------ inputs
\* Text url.Parse rejects inside a URL (an invalid percent escape).
MalformedText == {"%zz"}

\* a config as GetConfigPolicy declares it (lines 85-146)
Config(job, timeoutSecs, retries) ==
    [host |-> "gw", port |-> 9091, https |-> FALSE, debug |-> FALSE,
     job |-> job, instance |-> "", retries |-> retries,
     timeout_secs |-> timeoutSecs, replace |-> FALSE]

\* The configs the calls are made with: one destination with every number of
\* retries, the same destination with another timeout, another destination,
\* and a job no URL can be built from.
Configs ==
    {Config("batch1", 10, r) : r \in 0..MaxRetries}
        \cup {Config("batch1", 30, 1), Config("batch2", 10, 1),
              Config("%zz", 10, 1)}

\* ------------------------------------------------------------ prometheusUrl
NilUrl == "<nil>"

\* url.Parse on the formatted text: an error for text it cannot parse
UrlParseFails(config) ==
    \/ config.host \in MalformedText
    \/ config.job \in MalformedText
    \/ config.instance \in MalformedText

\* fmt.Sprintf("%s://%s:%d/metrics/job/%s[/instance/%s]", ...)
UrlText(config) ==
    LET prefix == IF config.https THEN "https" ELSE "http"
        base == prefix \o "://" \o config.host \o ":" \o ToString(config.port)
                       \o "/metrics/job/" \o config.job
    IN  IF config.instance # ""
        THEN base \o "/instance/" \o config.instance
        ELSE base

\* (u, err): u is nil when err is set
prometheusUrl(config) ==
    IF UrlParseFails(config)
    THEN [url |-> NilUrl, err |-> TRUE]
    ELSE [url |-> UrlText(config), err |-> FALSE]

\* every key the pool can hold under the inputs above
Keys == {prometheusUrl(c).url : c \in {d \in Configs : ~UrlParseFails(d)}}

\* -------------------------------------------------------------------- text
\* A string is the sequence of its characters, each a one-character string;
\* "" is the empty sequence.
Lower == {"a", "b", "c", "d", "e", "f", "g", "h", "i", "j", "k", "l", "m",
          "n", "o", "p", "q", "r", "s", "t", "u", "v", "w", "x", "y", "z"}
Upper == {"A", "B", "C", "D", "E", "F", "G", "H", "I", "J", "K", "L", "M",
          "N", "O", "P", "Q", "R", "S", "T", "U", "V", "W", "X", "Y", "Z"}
Digit == {"0", "1", "2", "3", "4", "5", "6", "7", "8", "9"}

\* A compiled character class: the characters between the brackets, and
\* whether the class is negated ([^...]).
\* invalidMetric = regexp.MustCompile("[^a-zA-Z0-9:_]")
invalidMetric ==
    [negated |-> TRUE, class |-> Lower \cup Upper \cup Digit \cup {":", "_"}]
\* invalidLabel = regexp.MustCompile("[^a-zA-Z0-9_]")
invalidLabel ==
    [negated |-> TRUE, class |-> Lower \cup Upper \cup Digit \cup {"_"}]

\* re.ReplaceAllString(s, "_") for a class, which matches one character at a
\* time
ReplaceAllString(re, s) ==
    [i \in 1..Len(s) |-> IF (s[i] \in re.class) # re.negated THEN "_"
                                                               ELSE s[i]]

\* strings.Join(elems, sep)
Join(elems, sep) ==
    LET J[i \in 0..Len(elems)] ==
            IF i = 0 THEN << >>
            ELSE IF i = 1 THEN elems[1]
            ELSE J[i - 1] \o sep \o elems[i]
    IN  J[Len(elems)]

\* fmt.Sprint of an integer: its decimal digits, after "-" when negative
DigitText == <<"0", "1", "2", "3", "4", "5", "6", "7", "8", "9">>
RECURSIVE Decimal(_)
Decimal(n) ==
    IF n < 10 THEN <<DigitText[n + 1]>>
    ELSE Decimal(n \div 10) \o <<DigitText[(n % 10) + 1]>>

\* fmt.Sprint(m.Data()): Data holds an integer or a string, kind tells which
Sprint(data) ==
    IF data.kind = "int"
    THEN IF data.val < 0 THEN <<"-">> \o Decimal(0 - data.val)
         ELSE Decimal(data.val)
    ELSE data.val

\* the label keys the code names
UnitTag == <<"u", "n", "i", "t">>
SourceTag == <<"s", "o", "u", "r", "c", "e">>
HostTag == <<"h", "o", "s", "t">>
\* core.STD_TAG_PLUGIN_RUNNING_ON = "plugin_running_on"
STD_TAG_PLUGIN_RUNNING_ON ==
    <<"p", "l", "u", "g", "i", "n", "_", "r", "u", "n", "n", "i", "n", "g",
      "_", "o", "n">>

\* a map[string]string: a function from its keys; m[k] = v
EmptyMap == << >>
MapSet(map, k, v) ==
    [x \in (DOMAIN map) \cup {k} |-> IF x = k THEN v ELSE map[x]]

\* the orders in which a range over a map can produce its keys
Orders(map) ==
    LET keys == DOMAIN map
        n == Cardinality(keys)
    IN  {o \in [1..n -> keys] : \A i, j \in 1..n : i # j => o[i] # o[j]}

\* ------------------------------------------------------------- mangleMetric
\* m.Namespace().Strings(): the Value of every element
Strings(namespace) == [i \in 1..Len(namespace) |-> namespace[i].Value]

\* m.Namespace().IsDynamic(): the indexes (from 0) of the elements that have a
\* Name, in ascending order
IsDynamic(namespace) ==
    LET F[i \in 0..Len(namespace)] ==
            IF i = 0 THEN << >>
            ELSE IF namespace[i].Name # << >>
                 THEN Append(F[i - 1], i - 1)
                 ELSE F[i - 1]
    IN  F[Len(namespace)]

\* append(ns[:at], ns[at+1:]...), at counted from 0
RemoveAt(ns, at) ==
    [x \in 1..(Len(ns) - 1) |-> IF x <= at THEN ns[x] ELSE ns[x + 1]]

\* mutant: the original index is used as it is
RemovalIndex_Unshifted(i, j) == j

\* line 276: j-i, the index of the element once i elements before it are gone
RemovalIndex(i, j) == j - i

\* lines 267-279: the loop over indexes; (ns, tags) after it
DynamicLoop(namespace) ==
    LET indexes == IsDynamic(namespace)
        L[n \in 0..Len(indexes)] ==
            IF n = 0
            THEN [ns |-> Strings(namespace), tags |-> EmptyMap]
            ELSE LET i == n - 1
                     j == indexes[n]
                     before == L[n - 1]
                 IN  [ns |-> RemoveAt(before.ns, RemovalIndex(i, j)),
                      tags |-> MapSet(before.tags, namespace[j + 1].Name,
                                      namespace[j + 1].Value)]
    IN  L[Len(indexes)]

\* lines 286-288: add "unit" unless the metric has a "unit" tag
UnitLabel(metric, tags) ==
    IF UnitTag \notin DOMAIN metric.Tags THEN MapSet(tags, UnitTag, metric.Unit) ELSE tags

\* lines 293-303: the body of the loop over m.Tags() for the pair k, v
TagLabel(metric, tags, k, v) ==
    IF k = STD_TAG_PLUGIN_RUNNING_ON
    THEN LET withSource == IF SourceTag \notin DOMAIN metric.Tags
                           THEN MapSet(tags, SourceTag, v) ELSE tags
         IN  IF HostTag \notin DOMAIN metric.Tags
             THEN MapSet(withSource, HostTag, v) ELSE withSource
    ELSE MapSet(tags, ReplaceAllString(invalidLabel, k), v)

\* lines 291-304: the range over m.Tags(), producing the keys in order
TagLoop(metric, tags, order) ==
    LET L[n \in 0..Len(order)] ==
            IF n = 0 THEN tags
            ELSE TagLabel(metric, L[n - 1], order[n], metric.Tags[order[n]])
    IN  L[Len(order)]

\* mangleMetric(m, config), the range over m.Tags() taking order; the
\* timestamp it also returns is dropped by its only caller
mangleMetric(metric, config, order) ==
    LET dyn == DynamicLoop(metric.Namespace)
        ns == [i \in 1..Len(dyn.ns) |-> ReplaceAllString(invalidMetric, dyn.ns[i])]
    IN  [name |-> Join(ns, <<"_">>),
         tags |-> TagLoop(metric, UnitLabel(metric, dyn.tags), order),
         value |-> Sprint(metric.Data)]

\* ---------------------------------------------------------- prometheusString
\* fmt.Sprintf("%s=\"%s\"", k, v)
LabelText(k, v) == k \o <<"=", "\"">> \o v \o <<"\"">>

\* prometheusString(name, tags, value), the range over tags taking order
prometheusString(name, tags, value, order) ==
    LET tmp1 == [i \in 1..Len(order) |-> LabelText(order[i], tags[order[i]])]
    IN  name \o <<"{">> \o Join(tmp1, <<",">>) \o <<"}", " ">> \o value

\* --------------------------------------------------------------- sendMetrics
\* Lines 218-223: the loop over metrics.  Every outcome it can have, as the
\* order of each range over a map is not fixed: mangled, the values
\* mangleMetric returned, and buf, the bytes written.
sendMetrics(config, metrics) ==
    LET B[n \in 0..Len(metrics)] ==
            IF n = 0
            THEN {[mangled |-> << >>, buf |-> << >>]}
            ELSE UNION {UNION {
                   {[mangled |-> Append(b.mangled, r),
                     buf |-> b.buf
                               \o prometheusString(r.name, r.tags, r.value, o)
                               \o <<"\n">>] : o \in Orders(r.tags)} :
                   r \in {mangleMetric(metrics[n], config, mo) :
                             mo \in Orders(metrics[n].Tags)}} :
                   b \in B[n - 1]}
    IN  B[Len(metrics)]

\* ------------------------------------------------------------ metric inputs
MaxSegs == 3
MaxBatch == 2

\* a plugin.MetricType: the namespace elements, the tags, the unit, the data
Static(v) == [Name |-> << >>, Value |-> v]
Dynamic(n, v) == [Name |-> n, Value |-> v]
IntData(n) == [kind |-> "int", val |-> n]
StringData(s) == [kind |-> "string", val |-> s]
Metric(namespace, tags, unit, data) ==
    [Namespace |-> namespace, Tags |-> tags, Unit |-> unit, Data |-> data]

\* the text of the element at each position of a namespace
StaticValues == <<<<"a">>, <<"b", ".">>, <<"c">>, <<"d", "/", "e">>, <<"f">>>>
DynamicNames == <<<<"p">>, <<"q">>, <<"r">>, <<"s">>, <<"t">>>>
DynamicValues == <<<<"w">>, <<"x", "-">>, <<"y">>, <<"z">>, <<"v">>>>

\* every namespace of up to MaxSegs elements, each element static or dynamic
Namespaces ==
    UNION {{[i \in 1..n |->
                IF i \in D THEN Dynamic(DynamicNames[i], DynamicValues[i])
                ELSE Static(StaticValues[i])] : D \in SUBSET (1..n)} :
           n \in 0..MaxSegs}

Tag1(k, v) == MapSet(EmptyMap, k, v)
Tag2(k1, v1, k2, v2) == MapSet(Tag1(k1, v1), k2, v2)
RunningOn == <<"h", "1">>

\* metrics whose labels meet: a dynamic element named like a label the code
\* adds, tags next to the tag telling where the plugin runs, two tag keys one
\* label stands for, and a value of more than one line
EdgeMetrics ==
    {Metric(<<Static(<<"a">>), Dynamic(UnitTag, <<"9">>)>>, EmptyMap,
            <<"B">>, IntData(7)),
     Metric(<<Static(<<"a">>), Dynamic(UnitTag, <<"9">>)>>,
            Tag1(UnitTag, <<"k", "B">>), <<"B">>, IntData(7)),
     Metric(<<Dynamic(<<"p">>, <<"w">>), Static(<<"b">>)>>,
            Tag1(<<"p">>, <<"t">>), << >>, IntData(0 - 7)),
     Metric(<<Static(<<"a">>)>>, Tag1(STD_TAG_PLUGIN_RUNNING_ON, RunningOn),
            <<"B">>, IntData(7)),
     Metric(<<Static(<<"a">>)>>,
            Tag2(STD_TAG_PLUGIN_RUNNING_ON, RunningOn, SourceTag, <<"s", "1">>),
            <<"B">>, IntData(7)),
     Metric(<<Static(<<"a">>)>>,
            Tag2(STD_TAG_PLUGIN_RUNNING_ON, RunningOn, HostTag, <<"h", "2">>),
            <<"B">>, IntData(7)),
     Metric(<<Static(<<"a">>)>>,
            Tag2(STD_TAG_PLUGIN_RUNNING_ON, RunningOn,
                 <<"p", "l", "u", "g", "i", "n", "-", "r", "u", "n", "n", "i",
                   "n", "g", "-", "o", "n">>, <<"x">>),
            <<"B">>, IntData(7)),
     Metric(<<Dynamic(STD_TAG_PLUGIN_RUNNING_ON, <<"n">>), Static(<<"a">>)>>,
            Tag1(STD_TAG_PLUGIN_RUNNING_ON, RunningOn), <<"B">>, IntData(7)),
     Metric(<<Dynamic(SourceTag, <<"d">>), Static(<<"a">>)>>,
            Tag1(STD_TAG_PLUGIN_RUNNING_ON, RunningOn), <<"B">>, IntData(7)),
     Metric(<<Static(<<"a">>)>>,
            Tag2(<<"a", ".", "b">>, <<"1">>, <<"a", "-", "b">>, <<"2">>),
            <<"B">>, StringData(<<"o", "k">>)),
     Metric(<<Static(<<"a">>)>>, Tag1(<<"k">>, <<"l", "\n", "m">>),
            <<"B">>, IntData(7))}

\* the metrics a batch is made of
PatternMetrics ==
    {Metric(ns, EmptyMap, <<"m", "s">>, IntData(42)) : ns \in Namespaces}
Metrics == PatternMetrics \cup EdgeMetrics

\* the metrics of the batches of more than one metric
PairMetrics ==
    {Metric(<<Static(<<"a">>)>>, EmptyMap, <<"m", "s">>, IntData(42)),
     Metric(<<Dynamic(<<"p">>, <<"w">>), Static(<<"b", ".">>)>>, EmptyMap,
            <<"m", "s">>, IntData(42)),
     Metric(<<Static(<<"a">>)>>,
            Tag2(<<"a", ".", "b">>, <<"1">>, <<"a", "-", "b">>, <<"2">>),
            <<"B">>, StringData(<<"o", "k">>))}

\* what the content of a call decodes to: no metric, one, or several
Batches ==
    {<< >>} \cup {<<r>> : r \in Metrics}
            \cup UNION {[1..n -> PairMetrics] : n \in 2..MaxBatch}

\* the batch of the calls that are made side by side
OneMetric == <<Metric(<<Static(<<"a">>)>>, EmptyMap, <<"m", "s">>, IntData(42))>>

\* ------------------------------------------------------------------- state
VARIABLES
    clientPool,   \* key -> handle (index into conns), NoConn when absent
    conns,        \* the heap of clientConnection objects, by handle (address)
    m,            \* owner of the mutex, Unlocked when free
    process,      \* "running", or how the process died
    pc,           \* per publisher: position in Publish
    config,       \* per publisher: the config the call was made with
    retry,        \* per publisher: loop variable of Publish
    client,       \* per publisher: handle returned by selectClient
    result,       \* per publisher: what the last call returned
    sendLog,      \* per publisher: outcome of each sendMetrics of the call
    metrics,      \* per publisher: the metrics the content decoded to
    mangled,      \* history: what mangleMetric returned in the last send
    sent,         \* history: the request body of each send of the call
    undecoded,    \* history: the call's content did not decode
    sleeps,       \* history: backoff sleeps the call has begun
    wpc,          \* watchConnections: position
    wWake,        \* watchConnections: end of the current time.Sleep
    wTodo,        \* watchConnections: keys the range has yet to produce
    wSeen,        \* watchConnections: entries the range has produced
    wK,           \* watchConnections: loop variable k
    wC,           \* watchConnections: loop variable c
    staleKeys,    \* history: keys idle when the scan began, not selected since
    lastSelected  \* history: key -> handle last returned by selectClient

vars == <<clientPool, conns, m, process, pc, config, retry, client,
          result, sendLog, metrics, mangled, sent, undecoded, sleeps,
          wpc, wWake, wTodo, wSeen, wK, wC, staleKeys, lastSelected>>

batchVars == <<metrics, mangled, sent>>
pubVars == <<pc, config, retry, client, result, sendLog, batchVars,
             undecoded, sleeps>>
watchVars == <<wpc, wWake, wTodo, wSeen, wK, wC>>
histVars == <<staleKeys, lastSelected>>

NoConn == 0
NoKey == "<none>"
NoConfig == [host |-> "", port |-> 0, https |-> FALSE, debug |-> FALSE,
             job |-> "", instance |-> "", retries |-> 0,
             timeout_secs |-> 0, replace |-> FALSE]

\* keys present in the map
Present == {k \in Keys : clientPool[k] # NoConn}

\* time.Now()
Now == 0
\* instants older than this are all idle, instants before Now are all past
Oldest == Now - (maxConnectionIdle + 1)

\* time.Now().Sub(c.LastUsed) > maxConnectionIdle
IsIdle(h) == Now - conns[h].LastUsed > maxConnectionIdle

\* Addresses of clientConnection objects: as many as can be referenced at
\* once (by the map, by each call's client, by the watcher's c).
Handles == 1..(Cardinality(Keys) + MaxCalls + 1)

\* A clientConnection no variable points to any more is garbage: the collector
\* frees it, and its address is free to be allocated again.
Freed == [Key |-> NoKey, Conn |-> [Timeout |-> 0], LastUsed |-> 0]
Allocate(heap) ==
    CHOOSE h \in Handles : heap[h] = Freed /\ \A g \in 1..(h - 1) : heap[g] # Freed
Reachable(pool, cl, c) ==
    ({pool[k] : k \in Keys} \cup {cl[p] : p \in Publishers} \cup {c}) \ {NoConn}
Sweep(heap, live) ==
    [h \in DOMAIN heap |-> IF h \in live THEN heap[h] ELSE Freed]

Init ==
    /\ clientPool = [k \in Keys |-> NoConn]
    /\ conns = [h \in Handles |-> Freed]
    /\ m = Unlocked
    /\ process = "running"
    /\ pc = [p \in Publishers |-> "idle"]
    /\ config = [p \in Publishers |-> NoConfig]
    /\ retry = [p \in Publishers |-> 0]
    /\ client = [p \in Publishers |-> NoConn]
    /\ result = [p \in Publishers |-> "none"]
    /\ sendLog = [p \in Publishers |-> << >>]
    /\ metrics = [p \in Publishers |-> << >>]
    /\ mangled = [p \in Publishers |-> << >>]
    /\ sent = [p \in Publishers |-> << >>]
    /\ undecoded = [p \in Publishers |-> FALSE]
    /\ sleeps = [p \in Publishers |-> 0]
    /\ wpc = "sleep"
    /\ wWake = Now + watchConnectionWait
    /\ wTodo = {}
    /\ wSeen = {}
    /\ wK = NoKey
    /\ wC = NoConn
    /\ staleKeys = {}
    /\ lastSelected = [k \in Keys |-> NoConn]

\* ------------------------------------------------------------------ Publish
\* mutant: content of an unknown type is taken for decoded
DecodeError_UnknownTypePasses(contentType, decodes) ==
    contentType \in {SnapGOBContentType, SnapJSONContentType} /\ ~decodes

\* Lines 157-173: the switch on contentType; whether Publish returns an error
\* from it.  decodes tells whether the content is well-formed for its type.
DecodeError(contentType, decodes) ==
    CASE contentType = SnapGOBContentType -> ~decodes
      [] contentType = SnapJSONContentType -> ~decodes
      [] OTHER -> TRUE

\* Lines 153-182: decode the content (into batch), build the URL (panic on
\* error), read retries and test retry < retries for retry = 0; line 212 when
\* that fails.
Publish(p, contentType, decodes, cfg, batch) ==
    /\ process = "running"
    /\ pc[p] = "idle"
    /\ \A q \in Publishers : q < p => pc[q] # "idle"
    /\ IF DecodeError(contentType, decodes)
       THEN \* return err, or fmt.Errorf("Unknown content type ...")
            /\ pc' = [pc EXCEPT ![p] = "done"]
            /\ result' = [result EXCEPT ![p] = "error"]
            /\ UNCHANGED <<process, config, metrics>>
       ELSE IF prometheusUrl(cfg).err
       THEN \* panic(err)
            /\ pc' = [pc EXCEPT ![p] = "panic"]
            /\ process' = "panic"
            /\ config' = [config EXCEPT ![p] = cfg]
            /\ metrics' = [metrics EXCEPT ![p] = batch]
            /\ UNCHANGED result
       ELSE IF 0 < cfg.retries
       THEN /\ pc' = [pc EXCEPT ![p] = "select_lock"]
            /\ config' = [config EXCEPT ![p] = cfg]
            /\ metrics' = [metrics EXCEPT ![p] = batch]
            /\ UNCHANGED <<process, result>>
       ELSE \* the loop body never runs: return nil
            /\ pc' = [pc EXCEPT ![p] = "done"]
            /\ result' = [result EXCEPT ![p] = "nil"]
            /\ config' = [config EXCEPT ![p] = cfg]
            /\ metrics' = [metrics EXCEPT ![p] = batch]
            /\ UNCHANGED process
    /\ undecoded' = [undecoded EXCEPT ![p] =
            ~(contentType \in {SnapGOBContentType, SnapJSONContentType} /\ decodes)]
    /\ UNCHANGED <<clientPool, conns, m, retry, client, sendLog, mangled,
                   sent, sleeps>>
    /\ UNCHANGED watchVars
    /\ UNCHANGED histVars

\* mutant: a retry takes the pooled connection like a first attempt
forceRefresh_Never(p) == FALSE

\* forceRefresh := retry > 0
forceRefresh(p) == retry[p] > 0

\* selectClient, line 352: m.Lock()
SelectLock(p) ==
    /\ process = "running"
    /\ pc[p] = "select_lock"
    /\ m = Unlocked
    /\ m' = p
    /\ pc' = [pc EXCEPT ![p] = "select_body"]
    /\ UNCHANGED <<clientPool, conns, process, config, retry,
                   client, result, sendLog, batchVars, undecoded, sleeps>>
    /\ UNCHANGED watchVars
    /\ UNCHANGED histVars

\* mutant: the entry records the job instead of the key it is stored under
NewConnection_WrongKey(key, cfg) ==
    [Key |-> cfg.job, Conn |-> [Timeout |-> cfg.timeout_secs], LastUsed |-> Now]

\* the clientConnection built at lines 361-374
NewConnection(key, cfg) ==
    [Key |-> key, Conn |-> [Timeout |-> cfg.timeout_secs], LastUsed |-> Now]

\* mutant: a new connection on every call
MustCreate_Always(p, key) == TRUE

\* line 359: clientPool[key] == nil || forceRefresh
MustCreate(p, key) == clientPool[key] = NoConn \/ forceRefresh(p)

\* mutant: selectClient returns without unlocking
DeferredUnlock_Missing(holder) == holder

\* line 353: defer m.Unlock(), the owner of m once selectClient has returned
DeferredUnlock(holder) == Unlocked

\* whether the body of selectClient assigns to the map (line 376)
WritesPool(p) ==
    LET u == prometheusUrl(config[p])
    IN  ~u.err /\ MustCreate(p, u.url)

\* selectClient, lines 355-385, with m held, and the deferred m.Unlock() of
\* line 353 as it returns; Publish goes on to sendMetrics (err is nil on every
\* return that reaches it)
SelectBody(p) ==
    /\ process = "running"
    /\ pc[p] = "select_body"
    /\ LET u == prometheusUrl(config[p])
           key == u.url
           new == Allocate(conns)
       IN  IF u.err
           THEN \* promUrl is nil: promUrl.String() dereferences it at line
                \* 356; the deferred m.Unlock() runs as the panic unwinds
                /\ process' = "panic"
                /\ pc' = [pc EXCEPT ![p] = "panic"]
                /\ m' = DeferredUnlock(p)
                /\ UNCHANGED <<clientPool, conns, client>>
                /\ UNCHANGED histVars
           ELSE IF MustCreate(p, key)
           THEN \* create one and add to the pool
                /\ clientPool' = [clientPool EXCEPT ![key] = new]
                /\ client' = [client EXCEPT ![p] = new]
                /\ conns' = Sweep([conns EXCEPT ![new] = NewConnection(key, config[p])],
                                  Reachable(clientPool', client', wC))
                /\ lastSelected' = [lastSelected EXCEPT ![key] = new]
                /\ staleKeys' = staleKeys \ {key}
                /\ pc' = [pc EXCEPT ![p] = "send"]
                /\ m' = DeferredUnlock(p)
                /\ UNCHANGED process
           ELSE \* update when it was accessed, return it
                /\ conns' = [conns EXCEPT ![clientPool[key]].LastUsed = Now]
                /\ client' = [client EXCEPT ![p] = clientPool[key]]
                /\ lastSelected' = [lastSelected EXCEPT ![key] = clientPool[key]]
                /\ staleKeys' = staleKeys \ {key}
                /\ pc' = [pc EXCEPT ![p] = "send"]
                /\ m' = DeferredUnlock(p)
                /\ UNCHANGED <<process, clientPool>>
    /\ UNCHANGED <<config, retry, result, sendLog, batchVars, undecoded,
                   sleeps>>
    /\ UNCHANGED watchVars

\* mutant: no break after a send that did not fail
Continues_NoBreak(p, ok) == retry[p] + 1 < config[p].retries

\* mutant: the loop gives up one attempt early
Continues_OneLess(p, ok) == ~ok /\ retry[p] + 2 < config[p].retries

\* mutant: a sleep after every failed send, the last one too
Continues_AfterLast(p, ok) == ~ok

\* Lines 198-207: the send failed and attempts remain, so the call sleeps and
\* goes round the loop again.
Continues(p, ok) == ~ok /\ retry[p] + 1 < config[p].retries

\* Lines 197-212: sendMetrics writes the request body and sends it, and
\* returns nil or an error.  On nil: break and return nil.  On an error: sleep
\* if retry+1 < retries, else continue, where retry++ ends the loop and nil is
\* returned.  client is not read after the send, nor retry after the loop.
Send(p, ok) ==
    /\ process = "running"
    /\ pc[p] = "send"
    /\ \E out \in sendMetrics(config[p], metrics[p]) :
          /\ mangled' = [mangled EXCEPT ![p] = out.mangled]
          /\ sent' = [sent EXCEPT ![p] = Append(@, out.buf)]
    /\ sendLog' = [sendLog EXCEPT ![p] = Append(@, ok)]
    /\ client' = [client EXCEPT ![p] = NoConn]
    /\ conns' = Sweep(conns, Reachable(clientPool, client', wC))
    /\ IF Continues(p, ok)
       THEN /\ pc' = [pc EXCEPT ![p] = "backoff"]
            /\ sleeps' = [sleeps EXCEPT ![p] = @ + 1]
            /\ UNCHANGED <<result, retry>>
       ELSE /\ pc' = [pc EXCEPT ![p] = "done"]
            /\ result' = [result EXCEPT ![p] = "nil"]
            /\ retry' = [retry EXCEPT ![p] = 0]
            /\ UNCHANGED sleeps
    /\ UNCHANGED <<config, metrics, undecoded>>
    /\ UNCHANGED <<clientPool, m, process>>
    /\ UNCHANGED watchVars
    /\ UNCHANGED histVars

\* Lines 204-206 and 182: time.Sleep(backoffDuration) ends; continue; retry++;
\* retry < retries holds, as retry+1 < retries did before the sleep
Backoff(p) ==
    /\ process = "running"
    /\ pc[p] = "backoff"
    /\ retry' = [retry EXCEPT ![p] = @ + 1]
    /\ pc' = [pc EXCEPT ![p] = "select_lock"]
    /\ UNCHANGED <<clientPool, conns, m, process, config, client, result,
                   sendLog, batchVars, undecoded, sleeps>>
    /\ UNCHANGED watchVars
    /\ UNCHANGED histVars

\* --------------------------------------------------------- watchConnections
\* Lines 53-54: time.Sleep returns and the range over clientPool begins.
WatchWake ==
    /\ process = "running"
    /\ wpc = "sleep"
    /\ Now >= wWake
    /\ wpc' = "iter"
    /\ wTodo' = Present
    /\ wSeen' = {}
    /\ staleKeys' = {k \in Present : IsIdle(clientPool[k])}
    /\ UNCHANGED <<clientPool, conns, m, process, wWake, wK, wC, lastSelected>>
    /\ UNCHANGED pubVars

\* Line 54: the range produces the next pair k, c (no lock is taken).  An
\* entry that was in the map when the range began is produced once, unless
\* deleted first; an entry inserted during the range may be produced or not.
WatchIterNext(k) ==
    /\ process = "running"
    /\ wpc = "iter"
    /\ k \in Present \ wSeen
    /\ wK' = k
    /\ wC' = clientPool[k]
    /\ wSeen' = wSeen \cup {k}
    /\ wTodo' = wTodo \ {k}
    /\ wpc' = "check"
    /\ UNCHANGED <<clientPool, conns, m, process, wWake>>
    /\ UNCHANGED pubVars
    /\ UNCHANGED histVars

\* Line 54 then 53: the range is exhausted; sleep again.
WatchIterEnd ==
    /\ process = "running"
    /\ wpc = "iter"
    /\ wTodo = {}
    /\ wpc' = "sleep"
    /\ wWake' = Now + watchConnectionWait
    /\ wSeen' = {}
    /\ staleKeys' = {}
    /\ UNCHANGED <<clientPool, conns, m, process, wTodo, wK, wC, lastSelected>>
    /\ UNCHANGED pubVars

\* line 54 racing with line 376: the runtime may stop the process with
\* "concurrent map iteration and map write"
WatchIterFatal ==
    /\ process = "running"
    /\ wpc = "iter"
    /\ \E p \in Publishers : pc[p] = "select_body" /\ WritesPool(p)
    /\ process' = "fatal"
    /\ UNCHANGED <<clientPool, conns, m>>
    /\ UNCHANGED pubVars
    /\ UNCHANGED watchVars
    /\ UNCHANGED histVars

\* line 55: read c.LastUsed and compare (no lock is taken); c is not read
\* again, and k only by the delete
WatchCheck ==
    /\ process = "running"
    /\ wpc = "check"
    /\ wpc' = IF IsIdle(wC) THEN "lock" ELSE "iter"
    /\ wK' = IF IsIdle(wC) THEN wK ELSE NoKey
    /\ wC' = NoConn
    /\ conns' = Sweep(conns, Reachable(clientPool, client, wC'))
    /\ UNCHANGED <<clientPool, m, process, wWake, wTodo, wSeen>>
    /\ UNCHANGED pubVars
    /\ UNCHANGED histVars

\* line 56: m.Lock()
WatchLock ==
    /\ process = "running"
    /\ wpc = "lock"
    /\ m = Unlocked
    /\ m' = WatcherId
    /\ wpc' = "delete"
    /\ UNCHANGED <<clientPool, conns, process, wWake, wTodo, wSeen,
                   wK, wC>>
    /\ UNCHANGED pubVars
    /\ UNCHANGED histVars

\* mutant: the entry is left in the map
DeleteKey_Noop(pool, k) == pool

\* line 57: delete(clientPool, k)
DeleteKey(pool, k) == [pool EXCEPT ![k] = NoConn]

\* lines 57-58: delete(clientPool, k); m.Unlock()
WatchDelete ==
    /\ process = "running"
    /\ wpc = "delete"
    /\ clientPool' = DeleteKey(clientPool, wK)
    /\ conns' = Sweep(conns, Reachable(clientPool', client, wC))
    /\ lastSelected' = [k \in Keys |->
                          IF clientPool'[k] = NoConn THEN NoConn ELSE lastSelected[k]]
    /\ m' = Unlocked
    /\ wpc' = "iter"
    /\ wK' = NoKey
    /\ wSeen' = wSeen \ {wK}
    /\ UNCHANGED <<process, wWake, wTodo, wC, staleKeys>>
    /\ UNCHANGED pubVars

\* --------------------------------------------------------------------- time
Tick ==
    /\ process = "running"
    /\ conns' = [h \in DOMAIN conns |->
                   IF conns[h] = Freed \/ conns[h].LastUsed = Oldest
                   THEN conns[h]
                   ELSE [conns[h] EXCEPT !.LastUsed = @ - 1]]
    /\ wWake' = IF wWake > Now THEN wWake - 1 ELSE wWake
    /\ <<conns', wWake'>> # <<conns, wWake>>
    /\ UNCHANGED <<clientPool, m, process, wpc, wTodo, wSeen, wK, wC>>
    /\ UNCHANGED pubVars
    /\ UNCHANGED histVars

Next ==
    \/ \E p \in Publishers, ct \in ContentTypes, d \in BOOLEAN, cfg \in Configs :
          Publish(p, ct, d, cfg, OneMetric)
    \/ \E p \in Publishers : SelectLock(p)
    \/ \E p \in Publishers : SelectBody(p)
    \/ \E p \in Publishers, ok \in BOOLEAN : Send(p, ok)
    \/ \E p \in Publishers : Backoff(p)
    \/ WatchWake
    \/ \E k \in Keys : WatchIterNext(k)
    \/ WatchIterEnd
    \/ WatchIterFatal
    \/ WatchCheck
    \/ WatchLock
    \/ WatchDelete
    \/ Tick

Spec == Init /\ [][Next]_vars

\* The scheduling the liveness properties rest on: a goroutine that can take
\* its next step takes it (a send returns, a sleep ends, time passes), and a
\* goroutine waiting for the mutex gets it if it is free again and again.
\* Whether a call is made at all, and whether the runtime detects the racing
\* map iteration, is left open.
Fairness ==
    /\ \A p \in Publishers :
          /\ SF_vars(SelectLock(p))
          /\ WF_vars(SelectBody(p))
          /\ WF_vars(\E ok \in BOOLEAN : Send(p, ok))
          /\ WF_vars(Backoff(p))
    /\ WF_vars(WatchWake)
    /\ WF_vars(\E k \in Keys : WatchIterNext(k))
    /\ WF_vars(WatchIterEnd)
    /\ WF_vars(WatchCheck)
    /\ SF_vars(WatchLock)
    /\ WF_vars(WatchDelete)
    /\ WF_vars(Tick)

FairSpec == Init /\ [][Next]_vars /\ Fairness

\* One call on its own, its content decoding to any batch: the loop of Publish
\* around selectClient and sendMetrics, without the calls beside it.
BatchNext ==
    \/ \E ct \in ContentTypes, d \in BOOLEAN, cfg \in Configs, batch \in Batches :
          Publish(1, ct, d, cfg, batch)
    \/ SelectLock(1)
    \/ SelectBody(1)
    \/ \E ok \in BOOLEAN : Send(1, ok)
    \/ Backoff(1)

BatchSpec == Init /\ [][BatchNext]_vars

\* ------------------------------------------------------------- properties
\* the key a call's config resolves to
KeyOf(p) == prometheusUrl(config[p]).url
AllFailed(log) == \A i \in 1..Len(log) : ~log[i]
\* selectClient returns to call p in this step
Selects(p) == pc[p] = "select_body" /\ pc'[p] = "send"

\* C1: every read and write of the pool mapping and of an entry's LastUsed
\* happens under the lock: in no reachable state is watchConnections at its
\* read of the map (the range) or of c.LastUsed while a Publish call is inside
\* selectClient's critical section.
C1_NoUnlockedRead ==
    \A p \in Publishers :
        ~(pc[p] = "select_body" /\ wpc \in {"iter", "check"})

\* C2: watchConnections never deletes the entry of a key whose current entry
\* was used no longer ago than maxConnectionIdle at the moment of deletion.
C2_FreshSurvives ==
    [][WatchDelete =>
          (clientPool[wK] # NoConn => IsIdle(clientPool[wK]))]_vars

\* C3: when a scan ends, every key whose entry was idle when the scan began
\* and was not selected (looked up or replaced) since is absent from the pool.
C3_StaleGone ==
    (wpc = "iter" /\ wTodo = {}) =>
        \A k \in staleKeys : clientPool[k] = NoConn

\* a scan is about to end that began with an idle entry nobody selected, and
\* the entry has been deleted
C3_Witness ==
    /\ wpc = "iter"
    /\ wTodo = {}
    /\ \E k \in staleKeys : clientPool[k] = NoConn

\* C4: with retries = N and a transport whose first successful send is the
\* k-th, exactly min(k, N) sends are made: no send follows a successful one,
\* never more than N are made, and the call returns nil. (When no send of the
\* call succeeded, k > N and N sends are made.)
C4_AttemptsMinKN ==
    \A p \in Publishers :
        LET log == sendLog[p]
            N == config[p].retries
            k == IF AllFailed(log) THEN N + 1
                 ELSE CHOOSE i \in 1..Len(log) :
                         log[i] /\ \A j \in 1..(i - 1) : ~log[j]
        IN  /\ Len(log) <= N
            /\ pc[p] = "send" => AllFailed(log) /\ Len(log) < N
            /\ (pc[p] = "done" /\ config[p] # NoConfig) =>
                  /\ result[p] = "nil"
                  /\ Len(log) = IF k < N THEN k ELSE N

\* a call with retries = MaxRetries whose sends failed until the last one,
\* which succeeded
C4_Witness ==
    \E p \in Publishers :
        /\ pc[p] = "done"
        /\ result[p] = "nil"
        /\ config[p].retries = MaxRetries
        /\ Len(sendLog[p]) = MaxRetries
        /\ sendLog[p][MaxRetries]
        /\ \A i \in 1..(MaxRetries - 1) : ~sendLog[p][i]

\* C5: a call whose URL cannot be built returns an error to its caller and
\* the process goes on running.
C5_InvalidConfigReturned ==
    \A p \in Publishers :
        UrlParseFails(config[p]) =>
            /\ process = "running"
            /\ pc[p] = "done"
            /\ result[p] = "error"

\* C6: a call all of whose config.retries attempts failed returns nil after
\* exactly config.retries sends.
C6_ExhaustedReturnsNil ==
    \A p \in Publishers :
        (pc[p] = "done" /\ config[p] # NoConfig /\ AllFailed(sendLog[p])) =>
            /\ result[p] = "nil"
            /\ Len(sendLog[p]) = config[p].retries

\* a call with retries = MaxRetries has returned after MaxRetries failed sends
C6_Witness ==
    \E p \in Publishers :
        /\ pc[p] = "done"
        /\ config[p].retries = MaxRetries
        /\ Len(sendLog[p]) = MaxRetries
        /\ AllFailed(sendLog[p])

\* C7: a selectClient call with forceRefresh = false for a key whose last
\* selected entry is still pooled returns that same handle and sets its
\* LastUsed to the time of the call; a call with forceRefresh = true returns a
\* handle other than the one pooled under the key before, and the pool holds
\* the returned handle afterwards.
C7_ReuseOrRefresh ==
    [][\A p \in Publishers :
          Selects(p) =>
              /\ (~forceRefresh(p) /\ lastSelected[KeyOf(p)] # NoConn) =>
                    /\ client'[p] = lastSelected[KeyOf(p)]
                    /\ conns'[client'[p]].LastUsed = Now
              /\ forceRefresh(p) =>
                    /\ client'[p] # clientPool[KeyOf(p)]
                    /\ client'[p] # lastSelected[KeyOf(p)]
              /\ clientPool'[KeyOf(p)] = client'[p]
              /\ client'[p] # NoConn]_vars

\* two calls hold the same handle, taken from the pool for the same key, the
\* second without creating one, and the entry has just been used
C7_Witness ==
    \E p, q \in Publishers :
        /\ p # q
        /\ pc[p] = "send" /\ pc[q] = "send"
        /\ client[p] # NoConn
        /\ client[p] = client[q]
        /\ conns[client[p]].LastUsed = Now

\* C8: the pool holds at most one entry per key, the entry stored under key k
\* records k as its Key (so no entry is stored under two keys), and an entry
\* appears under k only by a Publish call selecting k; the pool starts empty.
C8_OneEntryPerKey ==
    [][/\ \A k \in Keys :
             clientPool'[k] # NoConn =>
                /\ conns'[clientPool'[k]].Key = k
                /\ \A j \in Keys \ {k} : clientPool'[j] # clientPool'[k]
       /\ \A k \in Keys :
             (clientPool'[k] # NoConn /\ clientPool'[k] # clientPool[k]) =>
                \E p \in Publishers : Selects(p) /\ KeyOf(p) = k]_vars

\* the pool holds an entry for every key
C8_Witness == \A k \in Keys : clientPool[k] # NoConn

\* C9: the handle a call sends with has the timeout of the call's own config.
C9_OwnTimeout ==
    \A p \in Publishers :
        pc[p] = "send" =>
            conns[client[p]].Conn.Timeout = config[p].timeout_secs

\* C10: a Publish call holds the lock only inside selectClient, never while
\* sending or sleeping.
C10_LockOnlyInSelect ==
    \A p \in Publishers :
        /\ m = p => pc[p] = "select_body"
        /\ pc[p] \in {"send", "backoff"} => m # p

\* a call is sending while another call is inside selectClient with the lock
C10_Witness ==
    \E p, q \in Publishers :
        /\ pc[p] = "send"
        /\ pc[q] = "select_body"
        /\ m = q

\* ---------------------------------------------- properties of a call's batch
\* what mangleMetric returned for the metrics of call p in its last send
Mangled(p) == 1..Len(mangled[p])
\* the elements of a namespace that have no Name
IsStatic(e) == e.Name = << >>
StaticElements(namespace) == SelectSeq(namespace, IsStatic)
\* whether the character c occurs in the string text
Occurs(c, text) == \E x \in 1..Len(text) : text[x] = c

\* C11: the name mangleMetric returns is the non-dynamic elements of the
\* namespace, each once and in their order, every character outside
\* [a-zA-Z0-9:_] replaced by "_", joined by "_"; no character of a dynamic
\* element's value is in it (no element of the inputs shares a character with
\* another).
C11_NameFromStatics ==
    \A p \in Publishers : \A i \in Mangled(p) :
        LET namespace == metrics[p][i].Namespace
            statics == StaticElements(namespace)
            name == mangled[p][i].name
        IN  /\ name = Join([x \in 1..Len(statics) |->
                              ReplaceAllString(invalidMetric, statics[x].Value)],
                           <<"_">>)
            /\ \A j \in 1..Len(namespace) :
                  ~IsStatic(namespace[j]) =>
                      \A y \in 1..Len(namespace[j].Value) :
                          ~Occurs(namespace[j].Value[y], name)

\* a metric was sent whose namespace of MaxSegs elements has every element
\* dynamic but the last, which alone makes the name
C11_Witness ==
    \E p \in Publishers : \E i \in Mangled(p) :
        LET namespace == metrics[p][i].Namespace
        IN  /\ Len(namespace) = MaxSegs
            /\ \A j \in 1..(MaxSegs - 1) : ~IsStatic(namespace[j])
            /\ IsStatic(namespace[MaxSegs])
            /\ mangled[p][i].name =
                  ReplaceAllString(invalidMetric, namespace[MaxSegs].Value)

\* C12: every dynamic element of a metric's namespace is in the labels
\* mangleMetric returns, its Name the key and its Value the value, whatever
\* the unit and the tags of the metric are.
C12_DynamicLabels ==
    \A p \in Publishers : \A i \in Mangled(p) :
        LET namespace == metrics[p][i].Namespace
            tags == mangled[p][i].tags
        IN  \A j \in 1..Len(namespace) :
                ~IsStatic(namespace[j]) =>
                    /\ namespace[j].Name \in DOMAIN tags
                    /\ tags[namespace[j].Name] = namespace[j].Value

\* C13: for a metric that has the tag STD_TAG_PLUGIN_RUNNING_ON with value v,
\* the labels hold source = v unless the metric has a "source" tag, and
\* host = v unless it has a "host" tag, whose own values are kept; and no label
\* key is STD_TAG_PLUGIN_RUNNING_ON or what invalidLabel makes of it.
C13_RunningOnRenamed ==
    \A p \in Publishers : \A i \in Mangled(p) :
        LET own == metrics[p][i].Tags
            tags == mangled[p][i].tags
        IN  STD_TAG_PLUGIN_RUNNING_ON \in DOMAIN own =>
              LET v == own[STD_TAG_PLUGIN_RUNNING_ON]
              IN  /\ SourceTag \in DOMAIN tags
                  /\ tags[SourceTag] =
                        IF SourceTag \in DOMAIN own THEN own[SourceTag] ELSE v
                  /\ HostTag \in DOMAIN tags
                  /\ tags[HostTag] =
                        IF HostTag \in DOMAIN own THEN own[HostTag] ELSE v
                  /\ STD_TAG_PLUGIN_RUNNING_ON \notin DOMAIN tags
                  /\ ReplaceAllString(invalidLabel, STD_TAG_PLUGIN_RUNNING_ON)
                        \notin DOMAIN tags

\* C14: mangleMetric is a function of the metric and the config: two calls
\* of it on equal metrics (under the one config of a Publish call) return the
\* same name, the same labels and the same value text, whatever order the
\* range over the metric's tags takes.
C14_SameMetricSameResult ==
    \A p \in Publishers : \A i, j \in Mangled(p) :
        metrics[p][i] = metrics[p][j] =>
            /\ mangled[p][i].name = mangled[p][j].name
            /\ mangled[p][i].tags = mangled[p][j].tags
            /\ mangled[p][i].value = mangled[p][j].value

\* ------------------------------------------- properties of the calls (more)
\* C15: a Publish call whose content does not decode, or is of an unknown
\* type, returns the error in that very step: the pool, its entries and the
\* lock are as before, the process runs on (no URL was built, which could
\* panic), and the call never selects a connection, sends or sleeps.
C15_DecodeErrorOnlyReturns ==
    [][\A p \in Publishers :
          /\ undecoded'[p] =>
                /\ pc'[p] = "done"
                /\ result'[p] = "error"
                /\ config'[p] = NoConfig
                /\ client'[p] = NoConn
                /\ sendLog'[p] = << >>
                /\ sent'[p] = << >>
                /\ sleeps'[p] = 0
          /\ (~undecoded[p] /\ undecoded'[p]) =>
                /\ pc[p] = "idle"
                /\ UNCHANGED <<clientPool, conns, m, process, lastSelected>>]_vars

\* a call has returned a decode error while the pool holds another call's entry
C15_Witness ==
    \E p \in Publishers :
        /\ undecoded[p]
        /\ pc[p] = "done"
        /\ result[p] = "error"
        /\ \E k \in Keys : clientPool[k] # NoConn

\* C16: the first selectClient of a call (no send made yet) is made with
\* forceRefresh false, every later one with forceRefresh true; a later one
\* returns a connection created in that very call of selectClient (its address
\* held no connection before, so it is none of the call's earlier ones), and
\* the pool holds it under the call's key.
C16_RetryForcesNew ==
    [][\A p \in Publishers :
          Selects(p) =>
              /\ forceRefresh(p) <=> Len(sendLog[p]) > 0
              /\ Len(sendLog[p]) > 0 =>
                    /\ conns[client'[p]] = Freed
                    /\ conns'[client'[p]] = NewConnection(KeyOf(p), config[p])
                    /\ clientPool'[KeyOf(p)] = client'[p]
                    /\ client'[p] # clientPool[KeyOf(p)]]_vars

\* a call is about to send again, after a failed send, with the connection the
\* pool now holds for its key
C16_Witness ==
    \E p \in Publishers :
        /\ pc[p] = "send"
        /\ Len(sendLog[p]) > 0
        /\ AllFailed(sendLog[p])
        /\ client[p] # NoConn
        /\ clientPool[KeyOf(p)] = client[p]

\* C17: every Publish call terminates: when every send returns, every sleep
\* ends and the mutex is granted fairly (Fairness), a call that has begun its
\* loop returns, whatever the other calls and watchConnections do.
C17_PublishReturns ==
    \A p \in Publishers :
        (pc[p] \in {"select_lock", "select_body", "send", "backoff"})
            ~> (pc[p] = "done")

\* C18: when watchConnections and the mutex are scheduled fairly (Fairness),
\* a pool entry idle for longer than maxConnectionIdle is in the end deleted
\* by watchConnections, unless a selectClient refreshes or replaces it first.
C18_IdleEventuallyDeleted ==
    \A k \in Keys :
        (clientPool[k] # NoConn /\ IsIdle(clientPool[k]))
            ~> (clientPool[k] = NoConn \/ ~IsIdle(clientPool[k]))

\* C19: when a send of a call returns, the call starts a backoff sleep if and
\* only if the send failed and attempts remain (the attempts made so far are
\* fewer than config.retries); otherwise it returns without sleeping.  So a
\* call in its loop has slept once after each send made, and a call that has
\* returned after n >= 1 sends has slept n - 1 times: N - 1 times when it
\* exhausted its N attempts.
C19_SleepIffAttemptsRemain ==
    [][\A p \in Publishers :
          LET n == Len(sendLog'[p])
          IN  /\ (pc[p] = "send" /\ pc'[p] # "send") =>
                    IF ~sendLog'[p][n] /\ n < config[p].retries
                    THEN pc'[p] = "backoff" /\ sleeps'[p] = sleeps[p] + 1
                    ELSE pc'[p] = "done" /\ sleeps'[p] = sleeps[p]
              /\ pc'[p] \in {"select_lock", "select_body", "send", "backoff"} =>
                    sleeps'[p] = n
              /\ (pc'[p] = "done" /\ n >= 1) => sleeps'[p] = n - 1
              /\ n = 0 => sleeps'[p] = 0]_vars

\* a call has returned after MaxRetries failed sends and MaxRetries - 1 sleeps
C19_Witness ==
    \E p \in Publishers :
        /\ pc[p] = "done"
        /\ config[p].retries = MaxRetries
        /\ Len(sendLog[p]) = MaxRetries
        /\ AllFailed(sendLog[p])
        /\ sleeps[p] = MaxRetries - 1

\* the lines of a text: done, those a newline has ended, in order, and cur,
\* what follows the last newline
Lines(text) ==
    LET F[n \in 0..Len(text)] ==
            IF n = 0 THEN [done |-> << >>, cur |-> << >>]
            ELSE LET before == F[n - 1]
                 IN  IF text[n] = "\n"
                     THEN [done |-> Append(before.done, before.cur),
                           cur |-> << >>]
                     ELSE [done |-> before.done,
                           cur |-> Append(before.cur, text[n])]
    IN  F[Len(text)]
StartsWith(text, prefix) ==
    Len(prefix) <= Len(text) /\ SubSeq(text, 1, Len(prefix)) = prefix
EndsWith(text, suffix) ==
    /\ Len(suffix) <= Len(text)
    /\ SubSeq(text, Len(text) - Len(suffix) + 1, Len(text)) = suffix

\* C20: the request body of every send of a call is one newline-terminated
\* line per metric of the call, in the order of the metrics: as many lines as
\* metrics, nothing after the last newline, and the i-th line is the i-th
\* metric's (its name before the labels, its value text after them).
C20_OneLinePerMetric ==
    \A p \in Publishers : \A a \in 1..Len(sent[p]) :
        LET lines == Lines(sent[p][a])
        IN  /\ lines.cur = << >>
            /\ Len(lines.done) = Len(metrics[p])
            /\ \A i \in 1..Len(metrics[p]) :
                  i <= Len(lines.done) =>
                      /\ StartsWith(lines.done[i], mangled[p][i].name \o <<"{">>)
                      /\ EndsWith(lines.done[i],
                                  <<"}", " ">> \o mangled[p][i].value)

====
